---- MODULE Spec2Model ----
(***************************************************************************)
(* ElasticIndexReadContext (src/ee/storage/ElasticIndexReadContext.cpp):   *)
(* the table-streamer context that streams the tuples of one hash range    *)
(* out of the elastic index and, once materialized, deletes them.          *)
(***************************************************************************)
EXTENDS Integers, Sequences, FiniteSets, TLC

VARIABLES
    m_predicateStrings, \* constructor argument, a list of strings (char sequences)
    m_iter,             \* <<>> is NULL, <<it>> a live range iterator
    m_materialized,
    table,              \* rows held by the persistent table
    index,              \* rows that have an entry in the elastic index
    hasIndex,
    indexingComplete,
    crashed,            \* a fatal exception was thrown
    retPositions,       \* the caller's position vector
    written,            \* every row handed to writeRow, in order
    deleted,            \* every row handed to deleteTuple, in order
    readActs,           \* read activations that returned ACTIVATION_SUCCEEDED
    clearActs,          \* clear activations that returned ACTIVATION_SUCCEEDED
    clearLog,           \* the calls made by the latest deleteStreamedTuples, in order
    lastOp              \* the call made by the last step and its result

vars == <<m_predicateStrings, m_iter, m_materialized, table, index, hasIndex,
          indexingComplete, crashed, retPositions, written, deleted, readActs,
          clearActs, clearLog, lastOp>>

----------------------------------------------------------------------------
(* Bounds of the model *)

MaxRows == 3
MaxCap == 2
MaxPositions == 4
MaxReadActs == 2
MaxClears == 2

----------------------------------------------------------------------------
(* Data *)

NULL == <<>>

TABLE_STREAM_ELASTIC_INDEX_READ == "TABLE_STREAM_ELASTIC_INDEX_READ"
TABLE_STREAM_ELASTIC_INDEX_CLEAR == "TABLE_STREAM_ELASTIC_INDEX_CLEAR"
TABLE_STREAM_SNAPSHOT == "TABLE_STREAM_SNAPSHOT"

StreamTypes ==
    {TABLE_STREAM_ELASTIC_INDEX_READ, TABLE_STREAM_ELASTIC_INDEX_CLEAR,
     TABLE_STREAM_SNAPSHOT}

ACTIVATION_SUCCEEDED == "ACTIVATION_SUCCEEDED"
ACTIVATION_FAILED == "ACTIVATION_FAILED"
ACTIVATION_UNSUPPORTED == "ACTIVATION_UNSUPPORTED"

Rows == 1..MaxRows

\* The partitioning hash of a row; rows of a larger id need not hash higher.
RowHash(r) == (r * 3) % 4

\* The predicate lists a context is constructed with.
PredicateChoices ==
    { << <<"1", ":", "3">> >>,
      << <<"0", ":", "9">> >>,
      << <<"3", ":", "1">> >>,
      << <<"-", "1", ":", "+", "2">> >>,
      << >>,
      << <<"1", ":", "3">>, <<"0", ":", "9">> >>,
      << <<"1", "3">> >>,
      << <<"1", ":", "2", ":", "3">> >>,
      << <<"a", ":", "3">> >>,
      << <<"9", "2", "2", "3", "3", "7", "2", "0", "3", "6", "8", "5", "4", "7",
           "7", "5", "8", "0", "8", ":", "3">> >> }

----------------------------------------------------------------------------
(* boost::lexical_cast<int64_t> and MiscUtil::splitToTwoString *)

IsDigit(c) == c \in {"0", "1", "2", "3", "4", "5", "6", "7", "8", "9"}

DigitVal(c) ==
    CASE c = "0" -> 0 [] c = "1" -> 1 [] c = "2" -> 2 [] c = "3" -> 3
      [] c = "4" -> 4 [] c = "5" -> 5 [] c = "6" -> 6 [] c = "7" -> 7
      [] c = "8" -> 8 [] c = "9" -> 9

\* 2^63 - 1 and 2^63 as digit strings: the magnitudes an int64_t can hold.
Int64MaxDigits ==
    <<9, 2, 2, 3, 3, 7, 2, 0, 3, 6, 8, 5, 4, 7, 7, 5, 8, 0, 7>>

Int64MinDigits ==
    <<9, 2, 2, 3, 3, 7, 2, 0, 3, 6, 8, 5, 4, 7, 7, 5, 8, 0, 8>>

RECURSIVE StripZeros(_)
StripZeros(d) ==
    IF Len(d) > 1 /\ d[1] = "0" THEN StripZeros(Tail(d)) ELSE d

RECURSIVE DigitsLeq(_, _)
\* d <= lim for two digit strings of the same length
DigitsLeq(d, lim) ==
    IF Len(d) = 0 THEN TRUE
    ELSE IF DigitVal(d[1]) < lim[1] THEN TRUE
    ELSE IF DigitVal(d[1]) > lim[1] THEN FALSE
    ELSE DigitsLeq(Tail(d), Tail(lim))

FitsInt64(digits, negative) ==
    LET d == StripZeros(digits)
        lim == IF negative THEN Int64MinDigits ELSE Int64MaxDigits
    IN  \/ Len(d) < Len(lim)
        \/ Len(d) = Len(lim) /\ DigitsLeq(d, lim)

RECURSIVE DigitsValue(_, _)
DigitsValue(d, acc) ==
    IF Len(d) = 0 THEN acc ELSE DigitsValue(Tail(d), acc * 10 + DigitVal(d[1]))

\* [ok |-> FALSE] stands for boost::bad_lexical_cast being thrown.
lexical_cast(s) ==
    LET signed == Len(s) > 0 /\ s[1] \in {"-", "+"}
        negative == Len(s) > 0 /\ s[1] = "-"
        digits == IF signed THEN Tail(s) ELSE s
        syntax == Len(digits) > 0 /\ \A i \in 1..Len(digits) : IsDigit(digits[i])
    IN  IF syntax /\ FitsInt64(digits, negative)
        THEN [ok |-> TRUE,
              val |-> IF negative THEN 0 - DigitsValue(digits, 0)
                      ELSE DigitsValue(digits, 0)]
        ELSE [ok |-> FALSE, val |-> 0]

\* Split at the first delimiter: one string when there is none, else two.
splitToTwoString(str, delimiter) ==
    LET hits == {i \in 1..Len(str) : str[i] = delimiter}
    IN  IF hits = {} THEN <<str>>
        ELSE LET p == CHOOSE i \in hits : \A j \in hits : i <= j
             IN  <<SubSeq(str, 1, p - 1), SubSeq(str, p + 1, Len(str))>>

ElasticIndexHashRange(low, high) == [low |-> low, high |-> high]

NoRange == ElasticIndexHashRange(0, 0)

\* Faulty variant: success is set before the two casts are tried.
parseHashRangeIgnoresCast(predicateStrings) ==
    IF Len(predicateStrings) # 1
    THEN [success |-> FALSE, range |-> NoRange]
    ELSE LET rangeStrings == splitToTwoString(predicateStrings[1], ":")
         IN  IF Len(rangeStrings) = 2
             THEN LET lo == lexical_cast(rangeStrings[1])
                      hi == lexical_cast(rangeStrings[2])
                  IN  IF lo.ok /\ hi.ok
                      THEN [success |-> TRUE,
                            range |-> ElasticIndexHashRange(lo.val, hi.val)]
                      ELSE [success |-> TRUE, range |-> NoRange]
             ELSE [success |-> FALSE, range |-> NoRange]

\* Faulty variant: only an empty list is refused, the first entry is parsed.
parseHashRangeFirstOfMany(predicateStrings) ==
    IF Len(predicateStrings) < 1
    THEN [success |-> FALSE, range |-> NoRange]
    ELSE LET rangeStrings == splitToTwoString(predicateStrings[1], ":")
         IN  IF Len(rangeStrings) = 2
             THEN LET lo == lexical_cast(rangeStrings[1])
                      hi == lexical_cast(rangeStrings[2])
                  IN  IF lo.ok /\ hi.ok
                      THEN [success |-> TRUE,
                            range |-> ElasticIndexHashRange(lo.val, hi.val)]
                      ELSE [success |-> FALSE, range |-> NoRange]
             ELSE [success |-> FALSE, range |-> NoRange]

parseHashRange(predicateStrings) ==
    IF Len(predicateStrings) # 1
    THEN [success |-> FALSE, range |-> NoRange]
    ELSE LET rangeStrings == splitToTwoString(predicateStrings[1], ":")
         IN  IF Len(rangeStrings) = 2
             THEN LET lo == lexical_cast(rangeStrings[1])
                      hi == lexical_cast(rangeStrings[2])
                  IN  IF lo.ok /\ hi.ok
                      THEN [success |-> TRUE,
                            range |-> ElasticIndexHashRange(lo.val, hi.val)]
                      ELSE [success |-> FALSE, range |-> NoRange]
             ELSE [success |-> FALSE, range |-> NoRange]

----------------------------------------------------------------------------
(* The elastic index, its range iterator and the table surgeon *)

InRange(h, range) == range.low <= h /\ h < range.high

\* Index order: by hash, then by row.
KeyLess(a, b) == RowHash(a) < RowHash(b) \/ (RowHash(a) = RowHash(b) /\ a < b)

RECURSIVE Sorted(_)
Sorted(S) ==
    IF S = {} THEN <<>>
    ELSE LET m == CHOOSE a \in S : \A b \in S \ {a} : KeyLess(a, b)
         IN  <<m>> \o Sorted(S \ {m})

\* The index entries of a range, in iteration order.
RangeSeq(idx, range) == Sorted({r \in idx : InRange(RowHash(r), range)})

getIndexTupleRangeIterator(range) == [range |-> range, pos |-> 0]

next(it, idx) ==
    LET entries == RangeSeq(idx, it.range)
    IN  IF it.pos < Len(entries)
        THEN [ok |-> TRUE, tuple |-> entries[it.pos + 1],
              iter |-> [it EXCEPT !.pos = it.pos + 1]]
        ELSE [ok |-> FALSE, tuple |-> 0, iter |-> it]

reset(it) == [it EXCEPT !.pos = 0]

erase(it, idx) == {r \in idx : ~InRange(RowHash(r), it.range)}

\* While the bulk delete token is held the index is not told of the delete.
deleteTuple(tbl, tuple) == tbl \ {tuple}

\* One row is written; the stream yields once no further row fits.
writeRow(buffer, tuple, cap) ==
    LET b == Append(buffer, tuple)
    IN  [buffer |-> b, yield |-> Len(b) >= cap]

position(buffer) == Len(buffer)

----------------------------------------------------------------------------
(* handleStreamMore *)

RECURSIVE WriteLoopSkipsAtYield(_, _, _, _, _)
\* Faulty variant: the iterator is advanced before the yield is looked at,
\* so the row after a full buffer is lost.
WriteLoopSkipsAtYield(it, idx, tuple, buffer, cap) ==
    LET w == writeRow(buffer, tuple, cap)
        n == next(it, idx)
    IN  IF ~n.ok
        THEN [iter |-> n.iter, buffer |-> w.buffer, remaining |-> 0]
        ELSE IF w.yield
        THEN [iter |-> n.iter, buffer |-> w.buffer, remaining |-> 1]
        ELSE WriteLoopSkipsAtYield(n.iter, idx, n.tuple, w.buffer, cap)

RECURSIVE WriteLoopDoneAtYield(_, _, _, _, _)
\* Faulty variant: a full buffer is taken for the end of the range.
WriteLoopDoneAtYield(it, idx, tuple, buffer, cap) ==
    LET w == writeRow(buffer, tuple, cap)
    IN  IF w.yield
        THEN [iter |-> it, buffer |-> w.buffer, remaining |-> 0]
        ELSE LET n == next(it, idx)
             IN  IF ~n.ok
                 THEN [iter |-> n.iter, buffer |-> w.buffer, remaining |-> 0]
                 ELSE WriteLoopDoneAtYield(n.iter, idx, n.tuple, w.buffer, cap)

RECURSIVE WriteLoop(_, _, _, _, _)
\* while (!yield): write the tuple, then advance unless the stream yielded.
WriteLoop(it, idx, tuple, buffer, cap) ==
    LET w == writeRow(buffer, tuple, cap)
    IN  IF w.yield
        THEN [iter |-> it, buffer |-> w.buffer, remaining |-> 1]
        ELSE LET n == next(it, idx)
             IN  IF ~n.ok
                 THEN [iter |-> n.iter, buffer |-> w.buffer, remaining |-> 0]
                 ELSE WriteLoop(n.iter, idx, n.tuple, w.buffer, cap)

\* Faulty variant: two output streams are let through.
StreamCountAtLeastOne(nStreams) == nStreams >= 1

\* outputStreams.size() != 1 is an error.
StreamCountOk(nStreams) == nStreams = 1

\* Faulty variant: the flag is set by every call that streamed.
MaterializedWhenYielded(remaining, materialized) == remaining <= 1

\* if (remaining <= 0) m_materialized = true;
MaterializedAfter(remaining, materialized) ==
    IF remaining <= 0 THEN TRUE ELSE materialized

Op(op, streamType, reactivate, nStreams, cap, code, ret, out) ==
    [op |-> op, streamType |-> streamType, reactivate |-> reactivate,
     nStreams |-> nStreams, cap |-> cap, code |-> code, ret |-> ret, out |-> out]

\* Faulty variant: the position is reported only when rows were streamed.
PositionsAfterIfStreamed(positions, buffer) ==
    IF Len(buffer) = 0 THEN positions ELSE Append(positions, position(buffer))

\* retPositions.push_back((int)outputStreams.at(0).position());
PositionsAfter(positions, buffer) == Append(positions, position(buffer))

StreamOp(nStreams, cap, ret, out) ==
    Op("streamMore", "", FALSE, nStreams, cap, "", ret, out)

\* Faulty variant: the remaining <= 0 test sits after the else branch, where
\* the error value -1 passes it too.
handleStreamMoreFlagOnError(nStreams, cap) ==
    /\ ~crashed
    /\ IF m_iter = NULL \/ ~StreamCountOk(nStreams)
       THEN /\ lastOp' = StreamOp(nStreams, cap, -1, <<>>)
            /\ m_materialized' = MaterializedAfter(-1, m_materialized)
            /\ UNCHANGED <<m_iter, retPositions, written>>
       ELSE LET first == next(m_iter[1], index)
                r == IF ~first.ok
                     THEN [iter |-> first.iter, buffer |-> <<>>, remaining |-> 0]
                     ELSE WriteLoop(first.iter, index, first.tuple, <<>>, cap)
            IN  /\ Len(retPositions) < MaxPositions
                /\ m_iter' = <<r.iter>>
                /\ written' = written \o r.buffer
                /\ retPositions' = PositionsAfter(retPositions, r.buffer)
                /\ m_materialized' = MaterializedAfter(r.remaining, m_materialized)
                /\ lastOp' = StreamOp(nStreams, cap, r.remaining, r.buffer)
    /\ UNCHANGED <<m_predicateStrings, table, index, hasIndex, indexingComplete,
                   crashed, deleted, readActs, clearActs, clearLog>>

\* Faulty variant: remaining is not set to 0 when the first next() fails.
handleStreamMoreNeverDone(nStreams, cap) ==
    /\ ~crashed
    /\ IF m_iter = NULL \/ ~StreamCountOk(nStreams)
       THEN /\ lastOp' = StreamOp(nStreams, cap, -1, <<>>)
            /\ UNCHANGED <<m_iter, m_materialized, retPositions, written>>
       ELSE LET first == next(m_iter[1], index)
                r == IF ~first.ok
                     THEN [iter |-> first.iter, buffer |-> <<>>, remaining |-> 1]
                     ELSE WriteLoop(first.iter, index, first.tuple, <<>>, cap)
            IN  /\ Len(retPositions) < MaxPositions
                /\ m_iter' = <<r.iter>>
                /\ written' = written \o r.buffer
                /\ retPositions' = PositionsAfter(retPositions, r.buffer)
                /\ m_materialized' = MaterializedAfter(r.remaining, m_materialized)
                /\ lastOp' = StreamOp(nStreams, cap, r.remaining, r.buffer)
    /\ UNCHANGED <<m_predicateStrings, table, index, hasIndex, indexingComplete,
                   crashed, deleted, readActs, clearActs, clearLog>>

handleStreamMore(nStreams, cap) ==
    /\ ~crashed
    /\ IF m_iter = NULL \/ ~StreamCountOk(nStreams)
       THEN /\ lastOp' = StreamOp(nStreams, cap, -1, <<>>)
            /\ UNCHANGED <<m_iter, m_materialized, retPositions, written>>
       ELSE LET first == next(m_iter[1], index)
                r == IF ~first.ok
                     THEN [iter |-> first.iter, buffer |-> <<>>, remaining |-> 0]
                     ELSE WriteLoop(first.iter, index, first.tuple, <<>>, cap)
            IN  /\ Len(retPositions) < MaxPositions
                /\ m_iter' = <<r.iter>>
                /\ written' = written \o r.buffer
                /\ retPositions' = PositionsAfter(retPositions, r.buffer)
                /\ m_materialized' = MaterializedAfter(r.remaining, m_materialized)
                /\ lastOp' = StreamOp(nStreams, cap, r.remaining, r.buffer)
    /\ UNCHANGED <<m_predicateStrings, table, index, hasIndex, indexingComplete,
                   crashed, deleted, readActs, clearActs, clearLog>>

----------------------------------------------------------------------------
(* deleteStreamedTuples *)

RECURSIVE DeleteLoop(_, _, _, _)
\* while (m_iter->next(tuple)) m_surgeon.deleteTuple(tuple);
DeleteLoop(it, idx, tbl, del) ==
    LET n == next(it, idx)
    IN  IF n.ok
        THEN DeleteLoop(n.iter, idx, deleteTuple(tbl, n.tuple), Append(del, n.tuple))
        ELSE [iter |-> n.iter, table |-> tbl, deleted |-> del]

Ev(ev, row) == [ev |-> ev, row |-> row]

\* The deleteTuple calls of one run: the rows appended to del by the loop.
DeleteEvents(before, after) ==
    [i \in 1..(Len(after) - Len(before)) |-> Ev("deleteTuple", after[Len(before) + i])]

\* Faulty variant: m_iter->reset() is left out.
deleteStreamedTuplesNoReset(iterPtr, idx, tbl, del) ==
    LET r == DeleteLoop(iterPtr[1], idx, tbl, del)
    IN  [iterPtr |-> <<r.iter>>, table |-> r.table, deleted |-> r.deleted,
         index |-> erase(r.iter, idx),
         log |-> <<Ev("getBulkDeleteToken", 0)>> \o DeleteEvents(del, r.deleted)
                 \o <<Ev("erase", 0), Ev("~BulkDeleteToken", 0)>>]

\* Variant that releases the iterator once the range is erased.
deleteStreamedTuplesDropsIter(iterPtr, idx, tbl, del) ==
    IF iterPtr = NULL
    THEN [iterPtr |-> NULL, table |-> tbl, deleted |-> del, index |-> idx,
          log |-> <<>>]
    ELSE LET r == DeleteLoop(reset(iterPtr[1]), idx, tbl, del)
         IN  [iterPtr |-> NULL, table |-> r.table, deleted |-> r.deleted,
              index |-> erase(r.iter, idx),
              log |-> <<Ev("getBulkDeleteToken", 0), Ev("reset", 0)>>
                      \o DeleteEvents(del, r.deleted)
                      \o <<Ev("erase", 0), Ev("~BulkDeleteToken", 0)>>]

\* Faulty variant: the token is taken only once the iterator has been reset.
deleteStreamedTuplesLateToken(iterPtr, idx, tbl, del) ==
    LET r == DeleteLoop(reset(iterPtr[1]), idx, tbl, del)
    IN  [iterPtr |-> <<r.iter>>, table |-> r.table, deleted |-> r.deleted,
         index |-> erase(r.iter, idx),
         log |-> <<Ev("reset", 0), Ev("getBulkDeleteToken", 0)>>
                 \o DeleteEvents(del, r.deleted)
                 \o <<Ev("erase", 0), Ev("~BulkDeleteToken", 0)>>]

\* Faulty variant: the whole index is cleared, not the entries of the range.
deleteStreamedTuplesErasesAll(iterPtr, idx, tbl, del) ==
    LET r == DeleteLoop(reset(iterPtr[1]), idx, tbl, del)
    IN  [iterPtr |-> <<r.iter>>, table |-> r.table, deleted |-> r.deleted,
         index |-> {},
         log |-> <<Ev("getBulkDeleteToken", 0), Ev("reset", 0)>>
                 \o DeleteEvents(del, r.deleted)
                 \o <<Ev("erase", 0), Ev("~BulkDeleteToken", 0)>>]

\* The token is taken first and lives to the end of the scope; then
\* reset(), the delete loop and erase().
deleteStreamedTuples(iterPtr, idx, tbl, del) ==
    LET r == DeleteLoop(reset(iterPtr[1]), idx, tbl, del)
    IN  [iterPtr |-> <<r.iter>>, table |-> r.table, deleted |-> r.deleted,
         index |-> erase(r.iter, idx),
         log |-> <<Ev("getBulkDeleteToken", 0), Ev("reset", 0)>>
                 \o DeleteEvents(del, r.deleted)
                 \o <<Ev("erase", 0), Ev("~BulkDeleteToken", 0)>>]

----------------------------------------------------------------------------
(* handleActivation *)

ActivateOp(streamType, reactivate, code) ==
    Op("activate", streamType, reactivate, 0, 0, code, 0, <<>>)

ActivationReturns(streamType, reactivate, code) ==
    /\ lastOp' = ActivateOp(streamType, reactivate, code)
    /\ UNCHANGED <<m_iter, table, index, deleted, readActs, clearActs, clearLog>>

\* Faulty variant: reactivation is refused only on an activated context.
ReactivationRejectedOnceActive(streamType, reactivate) ==
    reactivate /\ streamType = TABLE_STREAM_ELASTIC_INDEX_READ /\ m_iter # NULL

\* if (reactivate && streamType == TABLE_STREAM_ELASTIC_INDEX_READ)
ReactivationRejected(streamType, reactivate) ==
    reactivate /\ streamType = TABLE_STREAM_ELASTIC_INDEX_READ

\* Faulty variant: the clear is gated on activation, not materialization.
ClearAllowedOnceActive == m_iter # NULL

\* if (!m_materialized) return ACTIVATION_FAILED;
ClearAllowed == m_materialized

handleActivation(streamType, reactivate) ==
    /\ ~crashed
    /\ IF ReactivationRejected(streamType, reactivate)
       THEN ActivationReturns(streamType, reactivate, ACTIVATION_FAILED)
       ELSE IF ~hasIndex \/ ~indexingComplete
       THEN ActivationReturns(streamType, reactivate, ACTIVATION_FAILED)
       ELSE IF streamType = TABLE_STREAM_ELASTIC_INDEX_READ
       THEN LET p == parseHashRange(m_predicateStrings)
            IN  IF ~p.success
                THEN ActivationReturns(streamType, reactivate, ACTIVATION_FAILED)
                ELSE /\ readActs < MaxReadActs
                     /\ m_iter' = <<getIndexTupleRangeIterator(p.range)>>
                     /\ readActs' = readActs + 1
                     /\ lastOp' = ActivateOp(streamType, reactivate, ACTIVATION_SUCCEEDED)
                     /\ UNCHANGED <<table, index, deleted, clearActs, clearLog>>
       ELSE IF streamType = TABLE_STREAM_ELASTIC_INDEX_CLEAR
       THEN IF ~ClearAllowed
            THEN ActivationReturns(streamType, reactivate, ACTIVATION_FAILED)
            ELSE LET d == deleteStreamedTuples(m_iter, index, table, deleted)
                 IN  /\ clearActs < MaxClears
                     /\ m_iter' = d.iterPtr
                     /\ table' = d.table
                     /\ index' = d.index
                     /\ deleted' = d.deleted
                     /\ clearLog' = d.log
                     /\ clearActs' = clearActs + 1
                     /\ lastOp' = ActivateOp(streamType, reactivate, ACTIVATION_SUCCEEDED)
                     /\ UNCHANGED readActs
       ELSE ActivationReturns(streamType, reactivate, ACTIVATION_UNSUPPORTED)
    /\ UNCHANGED <<m_predicateStrings, m_materialized, hasIndex, indexingComplete,
                   crashed, retPositions, written>>

----------------------------------------------------------------------------
(* handleDeactivation *)

DeactivateOp(streamType, code) ==
    Op("deactivate", streamType, FALSE, 0, 0, code, 0, <<>>)

\* Faulty variant: deactivating the read stream rewinds the iterator.
handleDeactivationRewinds(streamType) ==
    /\ ~crashed
    /\ IF streamType = TABLE_STREAM_ELASTIC_INDEX_READ
       THEN /\ lastOp' = DeactivateOp(streamType, "true")
            /\ m_iter' = IF m_iter = NULL THEN NULL ELSE <<reset(m_iter[1])>>
            /\ UNCHANGED crashed
       ELSE IF streamType = TABLE_STREAM_ELASTIC_INDEX_CLEAR
       THEN lastOp' = DeactivateOp(streamType, "false") /\ UNCHANGED <<crashed, m_iter>>
       ELSE lastOp' = DeactivateOp(streamType, "fatal") /\ crashed' = TRUE
                /\ UNCHANGED m_iter
    /\ UNCHANGED <<m_predicateStrings, m_materialized, table, index,
                   hasIndex, indexingComplete, retPositions, written, deleted,
                   readActs, clearActs, clearLog>>

handleDeactivation(streamType) ==
    /\ ~crashed
    /\ IF streamType = TABLE_STREAM_ELASTIC_INDEX_READ
       THEN lastOp' = DeactivateOp(streamType, "true") /\ UNCHANGED crashed
       ELSE IF streamType = TABLE_STREAM_ELASTIC_INDEX_CLEAR
       THEN lastOp' = DeactivateOp(streamType, "false") /\ UNCHANGED crashed
       ELSE lastOp' = DeactivateOp(streamType, "fatal") /\ crashed' = TRUE
    /\ UNCHANGED <<m_predicateStrings, m_iter, m_materialized, table, index,
                   hasIndex, indexingComplete, retPositions, written, deleted,
                   readActs, clearActs, clearLog>>

----------------------------------------------------------------------------
(* The index build that precedes the use of the context *)

IndexOp(op) == Op(op, "", FALSE, 0, 0, "", 0, <<>>)

createIndex ==
    /\ ~crashed
    /\ ~hasIndex
    /\ hasIndex' = TRUE
    /\ index' = {}
    /\ lastOp' = IndexOp("createIndex")
    /\ UNCHANGED <<m_predicateStrings, m_iter, m_materialized, table,
                   indexingComplete, crashed, retPositions, written, deleted,
                   readActs, clearActs, clearLog>>

completeIndexing ==
    /\ ~crashed
    /\ hasIndex
    /\ ~indexingComplete
    /\ index' = table
    /\ indexingComplete' = TRUE
    /\ lastOp' = IndexOp("completeIndexing")
    /\ UNCHANGED <<m_predicateStrings, m_iter, m_materialized, table, hasIndex,
                   crashed, retPositions, written, deleted, readActs, clearActs,
                   clearLog>>

----------------------------------------------------------------------------

NoOp == Op("none", "", FALSE, 0, 0, "", 0, <<>>)

Init ==
    /\ m_predicateStrings \in PredicateChoices
    /\ m_iter = NULL
    /\ m_materialized = FALSE
    /\ table \in SUBSET Rows
    /\ hasIndex \in BOOLEAN
    /\ indexingComplete \in {c \in BOOLEAN : c => hasIndex}
    /\ index = IF indexingComplete THEN table ELSE {}
    /\ crashed = FALSE
    /\ retPositions = <<>>
    /\ written = <<>>
    /\ deleted = <<>>
    /\ readActs = 0
    /\ clearActs = 0
    /\ clearLog = <<>>
    /\ lastOp = NoOp

Next ==
    \/ \E streamType \in StreamTypes, reactivate \in BOOLEAN :
          handleActivation(streamType, reactivate)
    \/ \E streamType \in StreamTypes : handleDeactivation(streamType)
    \/ \E nStreams \in 0..2, cap \in 1..MaxCap : handleStreamMore(nStreams, cap)
    \/ createIndex
    \/ completeIndexing

Spec == Init /\ [][Next]_vars

----------------------------------------------------------------------------
(* Properties *)

\* The hash range R of the context, as its predicate list parses.
ContextRange == parseHashRange(m_predicateStrings).range

RowsInRange(tbl) == {r \in tbl : InRange(RowHash(r), ContextRange)}

SeqSet(s) == {s[i] : i \in 1..Len(s)}

NoRepeats(s) == Cardinality(SeqSet(s)) = Len(s)

IsStreamMore(op) == op.op = "streamMore"

IsActivation(op, streamType) == op.op = "activate" /\ op.streamType = streamType

ReadContext == <<m_iter, m_materialized>>

\* C1: after one successful read activation (and before any clear), the rows
\* written by the handleStreamMore calls so far are rows of the table whose
\* hash lies in R, none written twice; a call that returns 0 leaves exactly
\* the rows of R written, each once, and m_materialized true.
C1_DrainCompleteness ==
    (readActs = 1 /\ clearActs = 0) =>
        /\ NoRepeats(written)
        /\ SeqSet(written) \subseteq RowsInRange(table)
        /\ (IsStreamMore(lastOp) /\ lastOp.ret = 0) =>
              /\ SeqSet(written) = RowsInRange(table)
              /\ m_materialized

\* Three rows of R were drained over several calls, the last returning 0.
C1_Witness ==
    /\ readActs = 1
    /\ clearActs = 0
    /\ IsStreamMore(lastOp)
    /\ lastOp.ret = 0
    /\ Len(written) = 3
    /\ Len(retPositions) >= 3

\* C2: a clear activation on a context that is not materialized returns
\* ACTIVATION_FAILED, hands no row to deleteTuple, erases no index entry and
\* leaves the iterator and the materialized flag as they were.
C2_MaterializationGating ==
    [][(IsActivation(lastOp', TABLE_STREAM_ELASTIC_INDEX_CLEAR) /\ ~m_materialized) =>
          /\ lastOp'.code = ACTIVATION_FAILED
          /\ UNCHANGED <<m_iter, m_materialized, table, index, deleted>>]_vars

\* A clear activation failed on a partly streamed context whose index was ready.
C2_Witness ==
    /\ IsActivation(lastOp, TABLE_STREAM_ELASTIC_INDEX_CLEAR)
    /\ lastOp.code = ACTIVATION_FAILED
    /\ ~m_materialized
    /\ hasIndex
    /\ indexingComplete
    /\ m_iter # NULL
    /\ Len(written) > 0
    /\ RowsInRange(table) # {}

\* C3: once a read activation has succeeded, every later read activation on
\* the context fails and leaves the iterator and the materialized flag unchanged.
C3_ReadPhaseSingleUse ==
    [][(readActs > 0 /\ IsActivation(lastOp', TABLE_STREAM_ELASTIC_INDEX_READ)) =>
          /\ lastOp'.code = ACTIVATION_FAILED
          /\ UNCHANGED <<m_iter, m_materialized>>]_vars

\* C4: after a clear activation returned ACTIVATION_SUCCEEDED no row of R is
\* left in the table, the reset range iterator yields no tuple and the index
\* holds no entry of R.
C4_PostDrainDeletion ==
    (IsActivation(lastOp, TABLE_STREAM_ELASTIC_INDEX_CLEAR)
        /\ lastOp.code = ACTIVATION_SUCCEEDED) =>
        /\ RowsInRange(table) = {}
        /\ ~next(reset(m_iter[1]), index).ok
        /\ RowsInRange(index) = {}

\* A clear deleted two streamed rows and left the row outside R in place.
C4_Witness ==
    /\ IsActivation(lastOp, TABLE_STREAM_ELASTIC_INDEX_CLEAR)
    /\ lastOp.code = ACTIVATION_SUCCEEDED
    /\ Len(deleted) = 2
    /\ Len(written) = 2
    /\ table # {}

\* C5: handleStreamMore returns -1 when the iterator was never created and
\* when the number of output streams is not one; it then writes no row and
\* leaves the iterator, the materialized flag and retPositions unchanged.
C5_StreamMorePreconditions ==
    [][(IsStreamMore(lastOp') /\ (m_iter = NULL \/ lastOp'.nStreams # 1)) =>
          /\ lastOp'.ret = -1
          /\ lastOp'.out = <<>>
          /\ UNCHANGED <<m_iter, m_materialized, retPositions, written>>]_vars

\* Two output streams were refused on an activated, partly streamed context.
C5_Witness ==
    /\ IsStreamMore(lastOp)
    /\ lastOp.nStreams = 2
    /\ lastOp.ret = -1
    /\ m_iter # NULL
    /\ ~m_materialized
    /\ Len(written) > 0

\* C6: every handleStreamMore call returns 1, 0 or -1; a call that is not an
\* error returns 1 if tuples of R remain to be streamed after it and 0 if
\* all of them have been written; a return of 0 leaves m_materialized true.
C6_TriState ==
    IsStreamMore(lastOp) =>
        /\ lastOp.ret \in {1, 0, -1}
        /\ lastOp.ret # -1 =>
              (lastOp.ret = 1 <=> next(m_iter[1], index).ok)
        /\ lastOp.ret = 0 => m_materialized

\* C7: a read activation with reactivate set returns ACTIVATION_FAILED in
\* every state and neither creates or replaces the iterator nor changes the
\* materialized flag.
C7_ReactivateFails ==
    [][(IsActivation(lastOp', TABLE_STREAM_ELASTIC_INDEX_READ) /\ lastOp'.reactivate) =>
          /\ lastOp'.code = ACTIVATION_FAILED
          /\ UNCHANGED <<m_iter, m_materialized>>]_vars

\* A reactivation failed on a fresh context that a plain activation would start.
C7_Witness ==
    /\ IsActivation(lastOp, TABLE_STREAM_ELASTIC_INDEX_READ)
    /\ lastOp.reactivate
    /\ lastOp.code = ACTIVATION_FAILED
    /\ m_iter = NULL
    /\ hasIndex
    /\ indexingComplete
    /\ parseHashRange(m_predicateStrings).success

\* C8: once a clear activation has succeeded, every further read or clear
\* activation fails and changes nothing; deleteStreamedTuples runs at most once.
C8_ClearedIsTerminal ==
    [][(clearActs > 0
          /\ lastOp'.op = "activate"
          /\ lastOp'.streamType \in {TABLE_STREAM_ELASTIC_INDEX_READ,
                                     TABLE_STREAM_ELASTIC_INDEX_CLEAR}) =>
          /\ lastOp'.code = ACTIVATION_FAILED
          /\ clearActs' <= 1
          /\ UNCHANGED <<m_iter, m_materialized, table, index, deleted>>]_vars

\* C9 as stated: the iterator is null before any read activation and null
\* again once a clear activation has succeeded.
C9_IteratorGoneAfterClear ==
    /\ readActs = 0 => m_iter = NULL
    /\ (IsActivation(lastOp, TABLE_STREAM_ELASTIC_INDEX_CLEAR)
           /\ lastOp.code = ACTIVATION_SUCCEEDED) => m_iter = NULL

\* C9 as amended: the iterator is null exactly until the first successful
\* read activation and stays present afterwards, also across a successful
\* clear activation; handleStreamMore with one output stream after a clear
\* does not return -1.
C9_IteratorKeptAfterClear ==
    /\ [](m_iter = NULL <=> readActs = 0)
    /\ [][(clearActs > 0 /\ IsStreamMore(lastOp') /\ lastOp'.nStreams = 1) =>
             lastOp'.ret # -1]_vars

\* handleStreamMore ran after a successful clear and did not report an error.
C9_Witness ==
    /\ clearActs = 1
    /\ readActs = 1
    /\ Len(deleted) > 0
    /\ IsStreamMore(lastOp)
    /\ lastOp.nStreams = 1
    /\ lastOp.ret = 0
    /\ m_iter # NULL

\* C10: m_materialized is false at construction, is never reset to false,
\* and turns true only in a handleStreamMore call that returns 0 having found
\* the iterator exhausted.
C10_MaterializedMonotone ==
    /\ m_materialized = FALSE
    /\ [][/\ m_materialized => m_materialized'
          /\ (~m_materialized /\ m_materialized') =>
                /\ IsStreamMore(lastOp')
                /\ lastOp'.ret = 0
                /\ ~next(m_iter'[1], index').ok]_vars

\* A materialized context was read-activated again and streamed a row with
\* more to come: the flag is still set.
C10_Witness ==
    /\ m_materialized
    /\ readActs = 2
    /\ IsStreamMore(lastOp)
    /\ lastOp.ret = 1
    /\ Len(lastOp.out) > 0

----------------------------------------------------------------------------
(* What a predicate list is required to look like *)

RECURSIVE ColonParts(_)
\* The parts of a string between its colons.
ColonParts(str) ==
    LET hits == {i \in 1..Len(str) : str[i] = ":"}
    IN  IF hits = {} THEN <<str>>
        ELSE LET p == CHOOSE i \in hits : \A j \in hits : i <= j
             IN  <<SubSeq(str, 1, p - 1)>> \o ColonParts(SubSeq(str, p + 1, Len(str)))

\* One entry, two colon-delimited parts, each a signed 64-bit integer.
WellFormedPredicates(preds) ==
    /\ Len(preds) = 1
    /\ Len(ColonParts(preds[1])) = 2
    /\ lexical_cast(ColonParts(preds[1])[1]).ok
    /\ lexical_cast(ColonParts(preds[1])[2]).ok

RequiredRange(preds) ==
    [low |-> lexical_cast(ColonParts(preds[1])[1]).val,
     high |-> lexical_cast(ColonParts(preds[1])[2]).val]

IndexReady == hasIndex /\ indexingComplete

\* C11: a read activation on a table without an index, with an index still
\* being built or with a predicate list that does not parse returns
\* ACTIVATION_FAILED and changes nothing: the iterator stays null and
\* m_materialized false, and a handleStreamMore that follows returns -1.
C11_ConfigurationErrors ==
    /\ [][(IsActivation(lastOp', TABLE_STREAM_ELASTIC_INDEX_READ)
             /\ (~IndexReady \/ ~WellFormedPredicates(m_predicateStrings))) =>
             /\ lastOp'.code = ACTIVATION_FAILED
             /\ UNCHANGED <<m_iter, m_materialized, table, index, deleted,
                            retPositions, written>>
             /\ m_iter' = NULL
             /\ ~m_materialized']_vars
    /\ [][(IsActivation(lastOp, TABLE_STREAM_ELASTIC_INDEX_READ)
             /\ (~IndexReady \/ ~WellFormedPredicates(m_predicateStrings))
             /\ IsStreamMore(lastOp')) =>
             lastOp'.ret = -1]_vars

\* A plain read activation failed on a ready index because "a:3" does not parse.
C11_Witness ==
    /\ IsActivation(lastOp, TABLE_STREAM_ELASTIC_INDEX_READ)
    /\ ~lastOp.reactivate
    /\ lastOp.code = ACTIVATION_FAILED
    /\ IndexReady
    /\ m_predicateStrings = << <<"a", ":", "3">> >>
    /\ table # {}
    /\ m_iter = NULL

\* C12: handleDeactivation returns true for the read stream and false for the
\* clear stream, throws a fatal exception for any other stream type, and never
\* changes the iterator or m_materialized: the handleStreamMore that follows
\* the deactivation of a partly drained read stream starts at the row after
\* the last one written, and a clear activation after the deactivation of a
\* materialized read stream still succeeds.
C12_Deactivation ==
    /\ [][lastOp'.op = "deactivate" =>
             /\ lastOp'.code =
                   IF lastOp'.streamType = TABLE_STREAM_ELASTIC_INDEX_READ THEN "true"
                   ELSE IF lastOp'.streamType = TABLE_STREAM_ELASTIC_INDEX_CLEAR
                   THEN "false"
                   ELSE "fatal"
             /\ crashed' = (lastOp'.code = "fatal")
             /\ UNCHANGED <<m_iter, m_materialized, table, index, retPositions,
                            written, deleted>>]_vars
    /\ [][(/\ lastOp.op = "deactivate"
           /\ lastOp.streamType = TABLE_STREAM_ELASTIC_INDEX_READ
           /\ readActs = 1
           /\ clearActs = 0
           /\ IsStreamMore(lastOp')
           /\ Len(lastOp'.out) > 0) =>
             lastOp'.out[1] = Sorted(RowsInRange(table))[Len(written) + 1]]_vars
    /\ [][(/\ lastOp.op = "deactivate"
           /\ lastOp.streamType = TABLE_STREAM_ELASTIC_INDEX_READ
           /\ m_materialized
           /\ IsActivation(lastOp', TABLE_STREAM_ELASTIC_INDEX_CLEAR)) =>
             lastOp'.code = ACTIVATION_SUCCEEDED]_vars

\* The read stream of a partly drained context was deactivated.
C12_Witness ==
    /\ lastOp.op = "deactivate"
    /\ lastOp.streamType = TABLE_STREAM_ELASTIC_INDEX_READ
    /\ lastOp.code = "true"
    /\ m_iter # NULL
    /\ ~m_materialized
    /\ Len(written) > 0
    /\ Len(written) < Cardinality(RowsInRange(table))

\* C13: parseHashRange succeeds, with the range (low, high), exactly when the
\* list has one entry made of two colon-delimited parts that are both signed
\* 64-bit integers; an empty or longer list, "13", "1:2:3", "a:3" and a part
\* beyond int64 make it return false; low >= high is not refused.
C13_ParseHashRange ==
    /\ [](LET p == parseHashRange(m_predicateStrings)
          IN  /\ p.success <=> WellFormedPredicates(m_predicateStrings)
              /\ p.success => p.range = RequiredRange(m_predicateStrings)
              /\ m_predicateStrings = << <<"1", ":", "3">> >> =>
                    (p.success /\ p.range = [low |-> 1, high |-> 3])
              /\ m_predicateStrings = << <<"3", ":", "1">> >> =>
                    (p.success /\ p.range = [low |-> 3, high |-> 1])
              /\ m_predicateStrings = << <<"-", "1", ":", "+", "2">> >> =>
                    (p.success /\ p.range = [low |-> -1, high |-> 2])
              /\ (\/ Len(m_predicateStrings) # 1
                  \/ m_predicateStrings \in
                        { << <<"1", "3">> >>,
                          << <<"1", ":", "2", ":", "3">> >>,
                          << <<"a", ":", "3">> >> }
                  \/ Len(m_predicateStrings[1]) > 19) => ~p.success)
    /\ [][(/\ IsActivation(lastOp', TABLE_STREAM_ELASTIC_INDEX_READ)
           /\ ~lastOp'.reactivate
           /\ IndexReady) =>
             /\ (lastOp'.code = ACTIVATION_SUCCEEDED) <=>
                    WellFormedPredicates(m_predicateStrings)
             /\ (lastOp'.code = ACTIVATION_SUCCEEDED) =>
                    m_iter'[1].range = RequiredRange(m_predicateStrings)]_vars

\* A read activation parsed "3:1" and built the iterator of the range (3, 1).
C13_Witness ==
    /\ IsActivation(lastOp, TABLE_STREAM_ELASTIC_INDEX_READ)
    /\ lastOp.code = ACTIVATION_SUCCEEDED
    /\ m_predicateStrings = << <<"3", ":", "1">> >>
    /\ m_iter = <<[range |-> [low |-> 3, high |-> 1], pos |-> 0]>>

\* C14: every row handed to deleteTuple was written to an output stream by
\* an earlier handleStreamMore call, and once m_materialized is set every row
\* of R still in the table has been streamed.
C14_DeletionNeverOutrunsStreaming ==
    /\ SeqSet(deleted) \subseteq SeqSet(written)
    /\ m_materialized => RowsInRange(table) \subseteq SeqSet(written)

\* A clear deleted three rows, all of them streamed before.
C14_Witness ==
    /\ IsActivation(lastOp, TABLE_STREAM_ELASTIC_INDEX_CLEAR)
    /\ lastOp.code = ACTIVATION_SUCCEEDED
    /\ Len(deleted) = 3
    /\ Len(retPositions) >= 2

LogAt(ev) == {i \in 1..Len(clearLog) : clearLog[i].ev = ev}

\* C15: in a successful clear activation the bulk delete token is taken
\* before the iterator is reset, the reset comes before the first deleteTuple,
\* every deleteTuple falls while the token is held, erase is called once and
\* after the last deleteTuple, and the token is gone when the activation
\* returns.
C15_DeletionOrdering ==
    (IsActivation(lastOp, TABLE_STREAM_ELASTIC_INDEX_CLEAR)
        /\ lastOp.code = ACTIVATION_SUCCEEDED) =>
        /\ Cardinality(LogAt("getBulkDeleteToken")) = 1
        /\ Cardinality(LogAt("reset")) = 1
        /\ \A a \in LogAt("getBulkDeleteToken"), r \in LogAt("reset") : a < r
        /\ \A r \in LogAt("reset"), d \in LogAt("deleteTuple") : r < d
        /\ \A d \in LogAt("deleteTuple") :
              /\ \E a \in LogAt("getBulkDeleteToken") : a < d
              /\ \A l \in LogAt("~BulkDeleteToken") : d < l
        /\ Cardinality(LogAt("erase")) = 1
        /\ \A e \in LogAt("erase"), d \in LogAt("deleteTuple") : d < e
        /\ Cardinality(LogAt("~BulkDeleteToken")) = 1
        /\ clearLog[Len(clearLog)].ev = "~BulkDeleteToken"
        /\ [i \in 1..Cardinality(LogAt("deleteTuple")) |->
               clearLog[2 + i].row] =
           SubSeq(deleted, Len(deleted) - Cardinality(LogAt("deleteTuple")) + 1,
                  Len(deleted))

\* A clear that made two deleteTuple calls between reset and erase.
C15_Witness ==
    /\ IsActivation(lastOp, TABLE_STREAM_ELASTIC_INDEX_CLEAR)
    /\ lastOp.code = ACTIVATION_SUCCEEDED
    /\ Cardinality(LogAt("deleteTuple")) = 2
    /\ Len(clearLog) = 6

C17_DrainProgress ==
    /\ [][(IsStreamMore(lastOp') /\ lastOp'.ret = 1) =>
             /\ Len(lastOp'.out) >= 1
             /\ Len(lastOp'.out) <= lastOp'.cap
             /\ m_iter'[1].pos > m_iter[1].pos
             /\ m_iter'[1].pos <= Cardinality(RowsInRange(table))
             /\ readActs = 1 => SeqSet(lastOp'.out) \cap SeqSet(written) = {}]_vars
    /\ []((readActs = 1 /\ ~m_materialized) =>
             Len(retPositions) <= Cardinality(RowsInRange(table)))

\* Three rows and one-row buffers: the drain took N + 1 = 4 calls.
C17_Witness ==
    /\ readActs = 1
    /\ IsStreamMore(lastOp)
    /\ lastOp.ret = 0
    /\ Cardinality(RowsInRange(table)) = 3
    /\ Len(retPositions) = 4

\* C18: whenever m_materialized is set the range iterator is present, so
\* deleteStreamedTuples, which dereferences m_iter unchecked, is only entered
\* with a live iterator.
C18_NoNullIteratorInClear ==
    m_materialized => m_iter # NULL

\* deleteStreamedTuples has run on a live iterator and deleted rows.
C18_Witness ==
    /\ m_materialized
    /\ m_iter # NULL
    /\ clearActs >= 1
    /\ Len(deleted) >= 1
    /\ IsActivation(lastOp, TABLE_STREAM_ELASTIC_INDEX_CLEAR)
    /\ lastOp.code = ACTIVATION_SUCCEEDED

\* C19: once handleStreamMore has returned 0, and before any clear
\* activation, every further call with one output stream returns 0 again,
\* writes no row and leaves m_materialized true.
C19_StreamMoreAfterDone ==
    [][(/\ m_materialized
        /\ clearActs = 0
        /\ IsStreamMore(lastOp')
        /\ lastOp'.nStreams = 1) =>
          /\ lastOp'.ret = 0
          /\ lastOp'.out = <<>>
          /\ written' = written
          /\ m_materialized']_vars

====
